---- MODULE Spec2Model ----
(***************************************************************************)
(* Model of the etcd gateway: the tree builder (insertNode), the listing   *)
(* handler (FetchKeysHandler) and the point lookup handler                 *)
(* (FetchValueForKeyHandler).                                              *)
(*                                                                         *)
(* Go strings that the code splits, trims or concatenates (keys, ids,      *)
(* names) are sequences of one-character strings; values, which the code   *)
(* only copies, are TLA+ strings.  The tree is a heap of nodes: a *TreeNode *)
(* is an index into `nodes`, index 1 being the root of the request.        *)
(***************************************************************************)
EXTENDS Integers, Sequences, FiniteSets, TLC

VARIABLES store, nodes, list, lookup, inserted, last

vars == <<store, nodes, list, lookup, inserted, last>>

----------------------------------------------------------------------------
(* Bounds and input sets *)

MaxStoreKeys == 2
MaxInserts == 3

Values == {"", "v1", "v2"}

\* keys the store may hold under the "/" prefix
PrefixedKeys ==
    { <<"/">>,
      <<"/", "a">>,
      <<"/", "b">>,
      <<"/", "a", "/">>,
      <<"/", "a", "/", "b">>,
      <<"/", "a", "/", "/", "b">>,
      <<"/", "a", "b">> }

\* keys the store may hold outside the "/" prefix
OtherKeys == { <<"a">>, <<"a", "/", "b">> }

StoreKeys == PrefixedKeys \cup OtherKeys

\* values of c.Param("key") the lookup handler is run with
RawKeys ==
    StoreKeys \cup { <<>>, <<"/", "/", "a">>, <<"/", "/", "a", "/", "b">>,
                     <<"/", "/", "a", "/">>, <<"/", "/">> }

Stores ==
    UNION { [K -> Values] :
              K \in { S \in SUBSET StoreKeys : Cardinality(S) <= MaxStoreKeys } }

----------------------------------------------------------------------------
(* Go strings *)

Slash == <<"/">>

HasPrefix(s, prefix) ==
    /\ Len(s) >= Len(prefix)
    /\ SubSeq(s, 1, Len(prefix)) = prefix

HasSuffix(s, suffix) ==
    /\ Len(s) >= Len(suffix)
    /\ SubSeq(s, Len(s) - Len(suffix) + 1, Len(s)) = suffix

TrimPrefix(s, prefix) ==
    IF HasPrefix(s, prefix) THEN SubSeq(s, Len(prefix) + 1, Len(s)) ELSE s

TrimSuffix(s, suffix) ==
    IF HasSuffix(s, suffix) THEN SubSeq(s, 1, Len(s) - Len(suffix)) ELSE s

\* strings.Split(s, sep) for a one-character separator
RECURSIVE Split(_, _)
Split(s, sep) ==
    IF \A i \in 1..Len(s) : s[i] # sep
    THEN <<s>>
    ELSE LET i == CHOOSE j \in 1..Len(s) :
                      /\ s[j] = sep
                      /\ \A h \in 1..(j - 1) : s[h] # sep
         IN  <<SubSeq(s, 1, i - 1)>> \o Split(SubSeq(s, i + 1, Len(s)), sep)

\* byte order of the characters in use
CharRank(c) == CASE c = "/" -> 47 [] c = "a" -> 97 [] c = "b" -> 98

\* a < b in the byte-wise order etcd sorts keys by
KeyLess(a, b) ==
    \E i \in 1..Len(b) :
        /\ \A j \in 1..(i - 1) : j <= Len(a) /\ a[j] = b[j]
        /\ i - 1 <= Len(a)
        /\ (i > Len(a) \/ CharRank(a[i]) < CharRank(b[i]))

----------------------------------------------------------------------------
(* The store client *)

RECURSIVE SortedKeys(_)
SortedKeys(S) ==
    IF S = {} THEN <<>>
    ELSE LET m == CHOOSE k \in S : \A j \in S \ {k} : KeyLess(k, j)
         IN  <<m>> \o SortedKeys(S \ {m})

\* client.Get(ctx, prefix, WithPrefix(), WithSort(SortByKey, SortAscend))
GetPrefix(st, prefix) ==
    LET ks == SortedKeys({ k \in DOMAIN st : HasPrefix(k, prefix) })
    IN  [ i \in 1..Len(ks) |-> [Key |-> ks[i], Value |-> st[ks[i]]] ]

\* client.Get(ctx, key)
GetExact(st, key) ==
    IF key \in DOMAIN st THEN << [Key |-> key, Value |-> st[key]] >> ELSE <<>>

----------------------------------------------------------------------------
(* The tree builder *)

NoValue == ""

NewRoot == [ID |-> <<>>, Name |-> <<"r", "o", "o", "t">>, Value |-> NoValue,
            Children |-> <<>>]

\* first child of node `root` whose Name is part; 0 when there is none
FindChild(ns, root, part) ==
    LET cs == ns[root].Children
        hits == { i \in 1..Len(cs) : ns[cs[i]].Name = part }
    IN  IF hits = {} THEN 0
        ELSE cs[CHOOSE i \in hits : \A j \in hits : i <= j]

NewNodeID(parentID, part) == TrimSuffix(parentID \o Slash \o part, Slash)

AppendChild_Prepend(children, k) == <<k>> \o children

AppendChild(children, k) == Append(children, k)

OverwriteValue_Keep(ns, found, isLast, value) == ns

OverwriteValue(ns, found, isLast, value) ==
    IF isLast THEN [ns EXCEPT ![found].Value = value] ELSE ns

RECURSIVE InsertFrom(_, _, _, _, _)
InsertFrom(ns, root, parts, i, value) ==
    IF i > Len(parts) THEN ns
    ELSE
      LET part == parts[i]
          found == FindChild(ns, root, part)
          isLast == (i = Len(parts))
      IN  IF found = 0
          THEN LET k == Len(ns) + 1
                   newNode == [ID |-> NewNodeID(ns[root].ID, part),
                               Name |-> part,
                               Value |-> IF isLast THEN value ELSE NoValue,
                               Children |-> <<>>]
                   ns2 == Append([ns EXCEPT ![root].Children =
                                                AppendChild(@, k)], newNode)
               IN  InsertFrom(ns2, k, parts, i + 1, value)
          ELSE InsertFrom(OverwriteValue(ns, found, isLast, value),
                          found, parts, i + 1, value)

insertNode(ns, parts, value) == InsertFrom(ns, 1, parts, 1, value)

\* strings.Split(string(kv.Key), "/")[1:]
KeyParts(key) == Tail(Split(key, "/"))

RECURSIVE BuildTree(_, _, _)
BuildTree(ns, kvs, i) ==
    IF i > Len(kvs) THEN ns
    ELSE BuildTree(insertNode(ns, KeyParts(kvs[i].Key), kvs[i].Value),
                   kvs, i + 1)

----------------------------------------------------------------------------
(* The handlers *)

NoList == [done |-> FALSE, calls |-> 0, err |-> FALSE, entries |-> 0,
           status |-> 0, body |-> <<>>]

NoLookup == [done |-> FALSE, param |-> <<>>, calls |-> 0, key |-> <<>>,
             err |-> FALSE, kvs |-> <<>>, status |-> 0, value |-> ""]

FetchKeysResult_ReturnRoot(st, err) ==
    IF err
    THEN [tree |-> <<>>,
          resp |-> [done |-> TRUE, calls |-> 1, err |-> TRUE, entries |-> 0,
                    status |-> 500, body |-> <<>>]]
    ELSE LET kvs == GetPrefix(st, Slash)
             t == BuildTree(<<NewRoot>>, kvs, 1)
         IN  [tree |-> t,
              resp |-> [done |-> TRUE, calls |-> 1, err |-> FALSE,
                        entries |-> Len(kvs), status |-> 200,
                        body |-> <<1>>]]

FetchKeysResult(st, err) ==
    IF err
    THEN [tree |-> <<>>,
          resp |-> [done |-> TRUE, calls |-> 1, err |-> TRUE, entries |-> 0,
                    status |-> 500, body |-> <<>>]]
    ELSE LET kvs == GetPrefix(st, Slash)
             t == BuildTree(<<NewRoot>>, kvs, 1)
         IN  [tree |-> t,
              resp |-> [done |-> TRUE, calls |-> 1, err |-> FALSE,
                        entries |-> Len(kvs), status |-> 200,
                        body |-> t[1].Children]]

FetchKeysHandler(err) ==
    LET r == FetchKeysResult(store, err)
    IN  /\ nodes' = r.tree
        /\ list' = r.resp
        /\ UNCHANGED <<store, lookup, inserted, last>>

FetchValueResult_EmptyIsMissing(st, param, err) ==
    IF param = <<>>
    THEN [NoLookup EXCEPT !.done = TRUE, !.param = param, !.status = 400]
    ELSE LET key == TrimPrefix(param, Slash)
             kvs == IF err THEN <<>> ELSE GetExact(st, key)
             base == [NoLookup EXCEPT !.done = TRUE, !.param = param,
                                      !.calls = 1, !.key = key,
                                      !.err = err, !.kvs = kvs]
         IN  IF err THEN [base EXCEPT !.status = 500]
             ELSE IF Len(kvs) = 0 \/ kvs[1].Value = ""
                  THEN [base EXCEPT !.status = 404]
                  ELSE [base EXCEPT !.status = 200, !.value = kvs[1].Value]

FetchValueResult(st, param, err) ==
    IF param = <<>>
    THEN [NoLookup EXCEPT !.done = TRUE, !.param = param, !.status = 400]
    ELSE LET key == TrimPrefix(param, Slash)
             kvs == IF err THEN <<>> ELSE GetExact(st, key)
             base == [NoLookup EXCEPT !.done = TRUE, !.param = param,
                                      !.calls = 1, !.key = key,
                                      !.err = err, !.kvs = kvs]
         IN  IF err THEN [base EXCEPT !.status = 500]
             ELSE IF Len(kvs) = 0
                  THEN [base EXCEPT !.status = 404]
                  ELSE [base EXCEPT !.status = 200, !.value = kvs[1].Value]

FetchValueForKeyHandler(param, err) ==
    /\ lookup' = FetchValueResult(store, param, err)
    /\ UNCHANGED <<store, nodes, list, inserted, last>>

\* the latest insertNode call: its key and value, whether that key had been
\* inserted before, and the value it was last inserted with
NoLast == [key |-> <<>>, value |-> "", again |-> FALSE, old |-> ""]

Init ==
    /\ store \in Stores
    /\ nodes = <<>>
    /\ list = NoList
    /\ lookup = NoLookup
    /\ inserted = <<>>
    /\ last = NoLast

Next ==
    \/ \E err \in BOOLEAN : FetchKeysHandler(err)
    \/ \E param \in RawKeys, err \in BOOLEAN : FetchValueForKeyHandler(param, err)

Spec == Init /\ [][Next]_vars

----------------------------------------------------------------------------
(* The tree builder on its own: insertNode calls against one root, with   *)
(* the key paths the listing handler derives, in any order.                *)

InitBuild ==
    /\ store = <<>>
    /\ nodes = <<NewRoot>>
    /\ list = NoList
    /\ lookup = NoLookup
    /\ inserted = <<>>
    /\ last = NoLast

Insert(key, value) ==
    /\ Len(nodes) >= 1
    /\ Len(inserted) < MaxInserts
    /\ nodes' = insertNode(nodes, KeyParts(key), value)
    /\ inserted' = Append(inserted, [key |-> key, value |-> value])
    /\ last' = [key |-> key, value |-> value,
                again |-> \E i \in 1..Len(inserted) : inserted[i].key = key,
                old |-> IF \E i \in 1..Len(inserted) : inserted[i].key = key
                        THEN LET h == CHOOSE i \in 1..Len(inserted) :
                                        /\ inserted[i].key = key
                                        /\ \A j \in (i + 1)..Len(inserted) :
                                               inserted[j].key # key
                             IN  inserted[h].value
                        ELSE ""]
    /\ UNCHANGED <<store, list, lookup>>

NextBuild == \E key \in PrefixedKeys, value \in Values : Insert(key, value)

SpecBuild == InitBuild /\ [][NextBuild]_vars

----------------------------------------------------------------------------
(* Reading a tree *)

Root == 1

NonRoot(ns) == 2..Len(ns)

Elems(seq) == { seq[i] : i \in 1..Len(seq) }

ParentOf(ns, k) == CHOOSE p \in 1..Len(ns) : k \in Elems(ns[p].Children)

\* the names on the way from the root down to node k
RECURSIVE PathNames(_, _)
PathNames(ns, k) ==
    IF k = Root THEN <<>>
    ELSE Append(PathNames(ns, ParentOf(ns, k)), ns[k].Name)

RECURSIVE Join(_, _)
Join(names, sep) ==
    IF Len(names) = 0 THEN <<>>
    ELSE IF Len(names) = 1 THEN names[1]
    ELSE names[1] \o sep \o Join(Tail(names), sep)

IsPrefixOf(s, t) == Len(s) <= Len(t) /\ SubSeq(t, 1, Len(s)) = s

Listed == list.done /\ list.status = 200

\* the (key, value) pairs the listing reads from the store
ListedPairs == { <<k, store[k]>> : k \in { j \in DOMAIN store : HasPrefix(j, Slash) } }

\* the (id, value) pairs of the nodes that carry a value
TreePairs == { <<nodes[k].ID, nodes[k].Value>> :
                 k \in { j \in NonRoot(nodes) : nodes[j].Value # NoValue } }

----------------------------------------------------------------------------
(* Claims *)

\* C1: in the tree a listing builds, no two nodes have the same id.
C1_UniqueIds ==
    Listed =>
      \A j, k \in NonRoot(nodes) : j # k => nodes[j].ID # nodes[k].ID

\* C2: the id of every non-root node is the names on the path from the root
\* down to it joined by "/", with no leading and no trailing separator.
C2_IdIsJoinedPath ==
    Listed =>
      \A k \in NonRoot(nodes) : nodes[k].ID = Join(PathNames(nodes, k), Slash)

\* C3: round trip: the (id, value) pairs of the nodes that have a value are
\* exactly the (key, value) pairs the listing read.
C3_RoundTrip == Listed => TreePairs = ListedPairs

\* C4: lookup of "" and of "/" ends in 400 and makes no store call.
C4_EmptyKeyRejected ==
    (lookup.done /\ lookup.param \in {<<>>, Slash}) =>
      (lookup.status = 400 /\ lookup.calls = 0)

\* C5: every node of the tree a listing returns has a non-empty name.
C5_NonEmptyNames ==
    Listed => \A k \in NonRoot(nodes) : nodes[k].Name # <<>>

\* a step that inserts a key inserted before
C6_OverwriteStep ==
    (last'.again /\ inserted' # inserted) =>
      LET parts == KeyParts(last'.key)
          before == { k \in NonRoot(nodes) : PathNames(nodes, k) = parts }
          after == { k \in NonRoot(nodes') : PathNames(nodes', k) = parts }
      IN  /\ Cardinality(before) = 1
          /\ after = before
          /\ \A k \in after :
                /\ nodes'[k].Value = last'.value
                /\ nodes' = [nodes EXCEPT ![k].Value = last'.value]

\* C6: inserting a path that was inserted before leaves exactly one node for
\* that path, sets its value to the new value and changes nothing else.
C6_Overwrite == [][C6_OverwriteStep]_vars

C6_Witness ==
    /\ last.again
    /\ last.old = "v1"
    /\ last.value = "v2"
    /\ last.key = <<"/", "a", "/", "b">>
    /\ Len(nodes) = 4
    /\ \E k \in NonRoot(nodes) :
          /\ PathNames(nodes, k) = << <<"a">>, <<"b">> >>
          /\ nodes[k].Value = "v2"

\* a node created later has a larger index, so children in creation order
\* are children in increasing index order
ChildrenInCreationOrder ==
    \A k \in 1..Len(nodes) :
      LET cs == nodes[k].Children
      IN  \A i, j \in 1..Len(cs) : i < j => cs[i] < cs[j]

C7_AppendOnlyStep ==
    /\ Len(nodes') >= Len(nodes)
    /\ \A k \in 1..Len(nodes) :
          /\ IsPrefixOf(nodes[k].Children, nodes'[k].Children)
          /\ nodes'[k].Name = nodes[k].Name
          /\ nodes'[k].ID = nodes[k].ID
          /\ \A i \in (Len(nodes[k].Children) + 1)..Len(nodes'[k].Children) :
                nodes'[k].Children[i] > Len(nodes)

\* C7: the children of every node are in the order in which they were
\* created, and an insertion only appends new children at the end: it never
\* reorders, removes or renames what is there.
C7_Ordering == [](ChildrenInCreationOrder) /\ [][C7_AppendOnlyStep]_vars

C7_Witness ==
    /\ Len(inserted) = 3
    /\ Len(nodes[Root].Children) = 2
    /\ nodes[nodes[Root].Children[1]].Name = <<"b">>
    /\ nodes[nodes[Root].Children[2]].Name = <<"a">>
    /\ Len(nodes[nodes[Root].Children[2]].Children) = 1
    /\ last.key = <<"/", "a", "/", "b">>

\* C8: for a key that is non-empty once its leading separator is removed,
\* lookup makes one exact-match store call and its outcome follows that
\* call: an error gives 500, no match gives 404, a match gives 200 with the
\* stored value, the empty string included.
C8_LookupOutcome ==
    (lookup.done /\ TrimPrefix(lookup.param, Slash) # <<>>) =>
      LET key == TrimPrefix(lookup.param, Slash)
      IN  /\ lookup.calls = 1
          /\ lookup.key = key
          /\ lookup.err => lookup.status = 500
          /\ (~lookup.err /\ key \notin DOMAIN store) => lookup.status = 404
          /\ (~lookup.err /\ key \in DOMAIN store) =>
                (lookup.status = 200 /\ lookup.value = store[key])

C8_Witness ==
    /\ lookup.done
    /\ lookup.key \in DOMAIN store
    /\ store[lookup.key] = ""
    /\ lookup.status = 200
    /\ lookup.value = ""

\* C9: a listing makes one store call; when it fails the request ends in
\* 500 with no tree; when it returns no entries the request ends in 200 with
\* an empty sequence; otherwise it ends in 200 with the children of the root,
\* the root itself not among them.
C9_ListingOutcome ==
    list.done =>
      /\ list.calls = 1
      /\ list.err => (list.status = 500 /\ nodes = <<>> /\ list.body = <<>>)
      /\ ~list.err =>
            /\ list.status = 200
            /\ Root \notin Elems(list.body)
            /\ ListedPairs = {} => list.body = <<>>
            /\ ListedPairs # {} =>
                  /\ list.body # <<>>
                  /\ list.body = nodes[Root].Children
                  /\ \A k \in NonRoot(nodes) :
                        (k \in Elems(list.body)) <=> (Len(PathNames(nodes, k)) = 1)

C9_Witness ==
    /\ Listed
    /\ Len(list.body) = 2
    /\ Cardinality(ListedPairs) = 2
    /\ Len(nodes) = 4
    /\ nodes[list.body[1]].Name = <<"a">>
    /\ nodes[list.body[2]].Name = <<"b">>

\* C10: for every node with a value in the tree the listing returned, a
\* lookup whose raw key is that node's id succeeds with that value.
C10_ListingLookupAgree ==
    (Listed /\ lookup.done /\ ~lookup.err) =>
      \A k \in NonRoot(nodes) :
        (nodes[k].Value # NoValue /\ lookup.param = nodes[k].ID) =>
          (lookup.status = 200 /\ lookup.value = nodes[k].Value)

====
